---- MODULE Spec2Model ----
(***************************************************************************)
(* A model of the ratatui TUI template (src/src/main.rs): the terminal     *)
(* session bracket of main(), the draw -> read -> update loop of run(),    *)
(* the key mapping of handle_input() and the command table of              *)
(* execute_command().                                                      *)
(*                                                                         *)
(* A Rust String is modelled as a sequence of characters, each character   *)
(* a one-character TLA+ string; the em dash of the help text, which is not *)
(* ASCII, is written "U+2014".  The log (Vec<String>) is a sequence of     *)
(* such sequences.  The letter e with an acute accent is written "U+00E9". *)
(***************************************************************************)
EXTENDS Integers, Sequences, FiniteSets, TLC

(***************************************************************************)
(* Bounds of the model.                                                    *)
(***************************************************************************)
\* The user submits a command other than clear only while the log holds at
\* most MaxLog entries (the log of the program is unbounded).
MaxLog == 2

\* The longest text typed and erased again in the round trip of C7.
MaxTyped == 2

(***************************************************************************)
(* String literals of the source.                                          *)
(***************************************************************************)
\* App::new, first greeting line (main.rs:43): "Welcome! Type 'help' for available commands."
MSG_WELCOME ==
    << "W", "e", "l", "c", "o", "m", "e", "!", " ", "T", "y", "p", "e",
       " ", "'", "h", "e", "l", "p", "'", " ", "f", "o", "r", " ", "a",
       "v", "a", "i", "l", "a", "b", "l", "e", " ", "c", "o", "m", "m",
       "a", "n", "d", "s", "." >>

\* App::new, second greeting line (main.rs:44): "Press Esc to quit."
MSG_ESC ==
    << "P", "r", "e", "s", "s", " ", "E", "s", "c", " ", "t", "o", " ",
       "q", "u", "i", "t", "." >>

\* the marker of format!("> {}", command) (main.rs:167): "> "
ECHO_PREFIX ==
    << ">", " " >>

\* help text (main.rs:201): "  Available commands:"
HELP_1 ==
    << " ", " ", "A", "v", "a", "i", "l", "a", "b", "l", "e", " ", "c",
       "o", "m", "m", "a", "n", "d", "s", ":" >>

\* help text (main.rs:202): "    help   U+2014 show this message"
HELP_2 ==
    << " ", " ", " ", " ", "h", "e", "l", "p", " ", " ", " ", "U+2014",
       " ", "s", "h", "o", "w", " ", "t", "h", "i", "s", " ", "m", "e",
       "s", "s", "a", "g", "e" >>

\* help text (main.rs:203): "    hello  U+2014 say hello"
HELP_3 ==
    << " ", " ", " ", " ", "h", "e", "l", "l", "o", " ", " ", "U+2014",
       " ", "s", "a", "y", " ", "h", "e", "l", "l", "o" >>

\* help text (main.rs:204): "    clear  U+2014 clear the output"
HELP_4 ==
    << " ", " ", " ", " ", "c", "l", "e", "a", "r", " ", " ", "U+2014",
       " ", "c", "l", "e", "a", "r", " ", "t", "h", "e", " ", "o", "u",
       "t", "p", "u", "t" >>

\* help text (main.rs:205): "    quit   U+2014 exit the app"
HELP_5 ==
    << " ", " ", " ", " ", "q", "u", "i", "t", " ", " ", " ", "U+2014",
       " ", "e", "x", "i", "t", " ", "t", "h", "e", " ", "a", "p", "p" >>

\* greeting (main.rs:208): "  Hello, world!"
MSG_HELLO ==
    << " ", " ", "H", "e", "l", "l", "o", ",", " ", "w", "o", "r", "l",
       "d", "!" >>

\* format! text before {} (main.rs:218): "  Unknown command: '"
UNKNOWN_PREFIX ==
    << " ", " ", "U", "n", "k", "n", "o", "w", "n", " ", "c", "o", "m",
       "m", "a", "n", "d", ":", " ", "'" >>

\* format! text after {} (main.rs:218): "'. Try 'help'."
UNKNOWN_SUFFIX ==
    << "'", ".", " ", "T", "r", "y", " ", "'", "h", "e", "l", "p", "'",
       "." >>

\* match arm (main.rs:200): "help"
CMD_HELP ==
    << "h", "e", "l", "p" >>

\* match arm (main.rs:207): "hello"
CMD_HELLO ==
    << "h", "e", "l", "l", "o" >>

\* match arm (main.rs:210): "clear"
CMD_CLEAR ==
    << "c", "l", "e", "a", "r" >>

\* match arm (main.rs:213): "quit"
CMD_QUIT ==
    << "q", "u", "i", "t" >>
(***************************************************************************)
(* The texts the user types.  The keyboard delivers any character; the     *)
(* model lets the input buffer hold any prefix of one of the Scripts, and  *)
(* the user presses Enter on a non-empty buffer only when it holds one of  *)
(* the Submitted texts: every table keyword, a keyword wrapped in spaces,  *)
(* a blank text and several unrecognized texts.                            *)
(***************************************************************************)
Scripts ==
    { <<"h", "e", "l", "l", "o">>,
      <<"h", "e", "l", "p">>,
      <<"c", "l", "e", "a", "r">>,
      <<"q", "u", "i", "t", "x">>,
      <<" ", "q", "u", "i", "t", " ">>,
      <<"x", "y", "z">>,
      <<"U+00E9">> }

Submitted ==
    Scripts \cup { <<"q", "u", "i", "t">>, <<"h", "e", "l">>, <<" ">> }

Typable == UNION { { SubSeq(s, 1, n) : n \in 0..Len(s) } : s \in Scripts }

Alphabet == UNION { { s[i] : i \in 1..Len(s) } : s \in Scripts }

(***************************************************************************)
(* Input events (crossterm::event::Event).  Every event has the same       *)
(* shape: type is "Key" or "Resize"; for a key, code is the KeyCode        *)
(* ("Char" carries its character in c) and kind the KeyEventKind.          *)
(***************************************************************************)
KeyCodes == {"Enter", "Char", "Backspace", "Esc", "Tab"}

KeyKinds == {"Press", "Release", "Repeat"}

Key(code, c, kind) == [type |-> "Key", code |-> code, c |-> c, kind |-> kind]

NoEvent == [type |-> "None", code |-> "", c |-> "", kind |-> ""]

ResizeEvent == [type |-> "Resize", code |-> "", c |-> "", kind |-> ""]

Events ==
    { Key(code, "", kind) : code \in KeyCodes \ {"Char"}, kind \in KeyKinds }
    \cup { Key("Char", c, kind) : c \in Alphabet, kind \in KeyKinds }
    \cup { ResizeEvent }

(***************************************************************************)
(* String operations of the Rust standard library used by the source.      *)
(***************************************************************************)
\* char::is_whitespace, on the characters of the model
is_whitespace(c) == c \in {" ", "\t", "\n", "\r"}

\* str::trim_start
RECURSIVE trim_start(_)
trim_start(s) ==
    IF s # <<>> /\ is_whitespace(Head(s)) THEN trim_start(Tail(s)) ELSE s

\* str::trim_end
RECURSIVE trim_end(_)
trim_end(s) ==
    IF s # <<>> /\ is_whitespace(s[Len(s)])
    THEN trim_end(SubSeq(s, 1, Len(s) - 1))
    ELSE s

\* str::trim (main.rs:199)
trim(s) == trim_end(trim_start(s))

\* String::push (main.rs:174)
push(s, c) == Append(s, c)

\* Mutant of pop: the whole buffer is erased (String::clear).
pop_ErasesAll(s) == <<>>

\* String::pop (main.rs:179): removes the last character, nothing if empty
pop(s) == IF s = <<>> THEN s ELSE SubSeq(s, 1, Len(s) - 1)

\* format!("> {}", command) (main.rs:167)
format_echo(command) == ECHO_PREFIX \o command

\* format!("  Unknown command: '{}'. Try 'help'.", other) (main.rs:218)
format_unknown(other) == UNKNOWN_PREFIX \o other \o UNKNOWN_SUFFIX

(***************************************************************************)
(* Application state (struct App).  The record an operator works on has    *)
(* the three fields of App and a ghost field, invoked, that                *)
(* execute_command sets: it records that the handler ran.                  *)
(***************************************************************************)
\* App::new (main.rs:38-47)
App_new ==
    [running  |-> TRUE,
     input    |-> <<>>,
     messages |-> <<MSG_WELCOME, MSG_ESC>>,
     invoked  |-> FALSE]

\* Mutant of execute_command: clear also empties the input buffer.
execute_command_ClearAlsoInput(app, cmd) ==
    LET called == [app EXCEPT !.invoked = TRUE]
        other  == trim(cmd)
    IN  CASE other = CMD_HELP ->
               [called EXCEPT !.messages =
                    @ \o <<HELP_1, HELP_2, HELP_3, HELP_4, HELP_5>>]
          [] other = CMD_HELLO ->
               [called EXCEPT !.messages = Append(@, MSG_HELLO)]
          [] other = CMD_CLEAR ->
               [called EXCEPT !.messages = <<>>, !.input = <<>>]
          [] other = CMD_QUIT ->
               [called EXCEPT !.running = FALSE]
          [] OTHER ->
               [called EXCEPT !.messages = Append(@, format_unknown(other))]

\* Mutant of execute_command: the greeting goes to the top of the log
\* (insert(0, ..) instead of push).
execute_command_HelloOnTop(app, cmd) ==
    LET called == [app EXCEPT !.invoked = TRUE]
        other  == trim(cmd)
    IN  CASE other = CMD_HELP ->
               [called EXCEPT !.messages =
                    @ \o <<HELP_1, HELP_2, HELP_3, HELP_4, HELP_5>>]
          [] other = CMD_HELLO ->
               [called EXCEPT !.messages = <<MSG_HELLO>> \o @]
          [] other = CMD_CLEAR ->
               [called EXCEPT !.messages = <<>>]
          [] other = CMD_QUIT ->
               [called EXCEPT !.running = FALSE]
          [] OTHER ->
               [called EXCEPT !.messages = Append(@, format_unknown(other))]

\* Mutant of execute_command: the text is matched without regard to case
\* (to_ascii_lowercase before the match).
execute_command_IgnoresCase(app, cmd) ==
    LET called == [app EXCEPT !.invoked = TRUE]
        other  == trim(cmd)
        lower(c) == CASE c = "H" -> "h" [] c = "E" -> "e" [] c = "L" -> "l"
                      [] c = "P" -> "p" [] c = "Q" -> "q" [] OTHER -> c
        folded == [i \in 1..Len(other) |-> lower(other[i])]
    IN  CASE folded = CMD_HELP ->
               [called EXCEPT !.messages =
                    @ \o <<HELP_1, HELP_2, HELP_3, HELP_4, HELP_5>>]
          [] folded = CMD_HELLO ->
               [called EXCEPT !.messages = Append(@, MSG_HELLO)]
          [] folded = CMD_CLEAR ->
               [called EXCEPT !.messages = <<>>]
          [] folded = CMD_QUIT ->
               [called EXCEPT !.running = FALSE]
          [] OTHER ->
               [called EXCEPT !.messages = Append(@, format_unknown(other))]

\* Mutant of execute_command: a keyword matches when the trimmed text starts
\* with it (starts_with instead of equality).
execute_command_PrefixMatch(app, cmd) ==
    LET called == [app EXCEPT !.invoked = TRUE]
        other  == trim(cmd)
        starts(k) == Len(k) <= Len(other) /\ SubSeq(other, 1, Len(k)) = k
    IN  CASE starts(CMD_HELP) ->
               [called EXCEPT !.messages =
                    @ \o <<HELP_1, HELP_2, HELP_3, HELP_4, HELP_5>>]
          [] starts(CMD_HELLO) ->
               [called EXCEPT !.messages = Append(@, MSG_HELLO)]
          [] starts(CMD_CLEAR) ->
               [called EXCEPT !.messages = <<>>]
          [] starts(CMD_QUIT) ->
               [called EXCEPT !.running = FALSE]
          [] OTHER ->
               [called EXCEPT !.messages = Append(@, format_unknown(other))]

\* execute_command (main.rs:198-221)
execute_command(app, cmd) ==
    LET called == [app EXCEPT !.invoked = TRUE]
        other  == trim(cmd)
    IN  CASE other = CMD_HELP ->
               [called EXCEPT !.messages =
                    @ \o <<HELP_1, HELP_2, HELP_3, HELP_4, HELP_5>>]
          [] other = CMD_HELLO ->
               [called EXCEPT !.messages = Append(@, MSG_HELLO)]
          [] other = CMD_CLEAR ->
               [called EXCEPT !.messages = <<>>]
          [] other = CMD_QUIT ->
               [called EXCEPT !.running = FALSE]
          [] OTHER ->
               [called EXCEPT !.messages = Append(@, format_unknown(other))]

\* Mutant of submit: the echo entry shows the trimmed command.
submit_EchoesTrimmed(app) ==
    LET command == app.input
        drained == [app EXCEPT !.input = <<>>]
    IN  IF command # <<>>
        THEN execute_command(
                 [drained EXCEPT
                     !.messages = Append(@, format_echo(trim(command)))],
                 command)
        ELSE drained

\* Mutant of submit: the echo entry is pushed after the handler has run.
submit_EchoesAfter(app) ==
    LET command == app.input
        drained == [app EXCEPT !.input = <<>>]
    IN  IF command # <<>>
        THEN [execute_command(drained, command) EXCEPT
                 !.messages = Append(@, format_echo(command))]
        ELSE drained

\* Mutant of submit: the command is trimmed before the emptiness test.
submit_TrimsFirst(app) ==
    LET command == trim(app.input)
        drained == [app EXCEPT !.input = <<>>]
    IN  IF command # <<>>
        THEN execute_command(
                 [drained EXCEPT
                     !.messages = Append(@, format_echo(app.input))],
                 command)
        ELSE drained

\* Mutant of submit: the emptiness test is missing.
submit_NoEmptyTest(app) ==
    LET command == app.input
        drained == [app EXCEPT !.input = <<>>]
    IN  execute_command(
            [drained EXCEPT !.messages = Append(@, format_echo(command))],
            command)

\* The Enter arm of handle_input (main.rs:163-170)
submit(app) ==
    LET command == app.input
        drained == [app EXCEPT !.input = <<>>]
    IN  IF command # <<>>
        THEN execute_command(
                 [drained EXCEPT !.messages = Append(@, format_echo(command))],
                 command)
        ELSE drained

\* Mutant of handle_input: Esc first clears a non-empty input buffer and
\* quits only when the buffer is already empty.
handle_input_EscClearsFirst(app, key) ==
    IF key.kind # "Press"
    THEN app
    ELSE CASE key.code = "Enter"     -> submit(app)
           [] key.code = "Char"      -> [app EXCEPT !.input = push(@, key.c)]
           [] key.code = "Backspace" -> [app EXCEPT !.input = pop(@)]
           [] key.code = "Esc"       ->
                IF app.input = <<>>
                THEN [app EXCEPT !.running = FALSE]
                ELSE [app EXCEPT !.input = <<>>]
           [] OTHER                  -> app

\* Mutant of handle_input: the kind of the key event is not tested.
handle_input_AnyKind(app, key) ==
    CASE key.code = "Enter"     -> submit(app)
      [] key.code = "Char"      -> [app EXCEPT !.input = push(@, key.c)]
      [] key.code = "Backspace" -> [app EXCEPT !.input = pop(@)]
      [] key.code = "Esc"       -> [app EXCEPT !.running = FALSE]
      [] OTHER                  -> app

\* handle_input (main.rs:154-190)
handle_input(app, key) ==
    IF key.kind # "Press"
    THEN app
    ELSE CASE key.code = "Enter"     -> submit(app)
           [] key.code = "Char"      -> [app EXCEPT !.input = push(@, key.c)]
           [] key.code = "Backspace" -> [app EXCEPT !.input = pop(@)]
           [] key.code = "Esc"       -> [app EXCEPT !.running = FALSE]
           [] OTHER                  -> app

(***************************************************************************)
(* Rendering (main.rs:105-149).  Lengths are usize values, positions on    *)
(* the screen are u16 values.                                              *)
(***************************************************************************)
\* the number of u16 values: `as u16` keeps a usize modulo this number
U16_VALUES == 65536

\* the rows of the input bar, Constraint::Length(3) (main.rs:111)
INPUT_BAR_ROWS == 3

\* the two border rows of the output block (main.rs:119)
BORDER_ROWS == 2

\* usize as u16 (main.rs:121, 148)
as_u16(n) == n % U16_VALUES

\* usize::saturating_sub, u16::saturating_sub (main.rs:119, 121)
saturating_sub(a, b) == IF a > b THEN a - b ELSE 0

\* the bytes of the UTF-8 encoding of a character
utf8_len(c) ==
    CASE c = "U+00E9" -> 2
      [] c = "U+2014" -> 3
      [] OTHER -> 1

\* String::len (main.rs:148): the length in bytes
RECURSIVE str_len(_)
str_len(s) == IF s = <<>> THEN 0 ELSE utf8_len(Head(s)) + str_len(Tail(s))

\* Vec::len (main.rs:120): the number of log entries
vec_len(v) == Len(v)

\* Layout of the frame area (main.rs:107-113), for an area of more than
\* INPUT_BAR_ROWS rows: the output region on top takes the rows that the
\* input bar of INPUT_BAR_ROWS rows at the bottom leaves.
chunks(area) ==
    << [x |-> area.x, y |-> area.y, width |-> area.width,
        height |-> area.height - INPUT_BAR_ROWS],
       [x |-> area.x, y |-> area.y + area.height - INPUT_BAR_ROWS,
        width |-> area.width, height |-> INPUT_BAR_ROWS] >>

\* visible_height (main.rs:119)
visible_height(output_rows) == saturating_sub(output_rows, BORDER_ROWS)

\* scroll_offset (main.rs:119-121)
scroll_offset(total_lines, output_rows) ==
    as_u16(saturating_sub(total_lines, visible_height(output_rows)))

\* The u16 sum chunks[1].x + app.input.len() as u16 + 1 (main.rs:148)
\* leaves the u16 range: a build with overflow checks panics there, a
\* build without them wraps.
cursor_overflows(x, input_len) == x + as_u16(input_len) + 1 >= U16_VALUES

\* the cursor column (main.rs:148), wrapped
cursor_x(x, input_len) == (x + as_u16(input_len) + 1) % U16_VALUES

\* the cursor row (main.rs:148)
cursor_y(y) == y + 1

\* render (main.rs:105-149): what one frame shows of the state in an area
render(app, area) ==
    [area      |-> area,
     output    |-> app.messages,
     scroll    |-> scroll_offset(vec_len(app.messages), chunks(area)[1].height),
     input_bar |-> app.input,
     cursor    |-> [x |-> cursor_x(chunks(area)[2].x, str_len(app.input)),
                    y |-> cursor_y(chunks(area)[2].y)]]

NoArea == [x |-> 0, y |-> 0, width |-> 0, height |-> 0]

NoFrame ==
    [area |-> NoArea, output |-> <<>>, scroll |-> 0, input_bar |-> <<>>,
     cursor |-> [x |-> 0, y |-> 0]]

\* The sizes of the terminal in the sessions of the model: frame.area()
\* starts at the origin.
Areas == { [x |-> 0, y |-> 0, width |-> 80, height |-> h] : h \in {6, 24} }

(***************************************************************************)
(* The process.                                                            *)
(***************************************************************************)
VARIABLES
    pc,            \* the position of main()/run()
    running,       \* app.running
    input,         \* app.input
    messages,      \* app.messages
    invoked,       \* ghost: execute_command ran during the last update
    ev,            \* the last event read (applied once pc has left "handle")
    frame,         \* the last frame drawn
    raw_mode,      \* the terminal is in raw mode / alternate screen
    restore_calls, \* number of calls of ratatui::restore() made by main
    result,        \* the Result run() returned: "None" until it returns
    stderr,        \* what was reported on the standard error stream
    exit_code,     \* the exit status, -1 while the process runs
    probe          \* one evaluation of the arithmetic of render on its own

vars == <<pc, running, input, messages, invoked, ev, frame, raw_mode,
          restore_calls, result, stderr, exit_code, probe>>

app_vars == <<running, input, messages, invoked>>

io_vars == <<raw_mode, restore_calls, result, stderr, exit_code>>

App == [running |-> running, input |-> input, messages |-> messages,
        invoked |-> invoked]

\* No evaluation of render on its own: a session of the program.
NoProbe ==
    [total_lines |-> 0, area_height |-> 0, input_len |-> 0, done |-> FALSE,
     scroll |-> 0, cursor_x |-> 0, panicked |-> FALSE]

ProgramInit ==
    /\ pc = "install"
    /\ running = App_new.running
    /\ input = App_new.input
    /\ messages = App_new.messages
    /\ invoked = App_new.invoked
    /\ ev = NoEvent
    /\ frame = NoFrame
    /\ raw_mode = FALSE
    /\ restore_calls = 0
    /\ result = "None"
    /\ stderr = <<>>
    /\ exit_code = -1

Init == ProgramInit /\ probe = NoProbe

\* color_eyre::install()? succeeds (main.rs:55)
Install ==
    /\ pc = "install"
    /\ pc' = "init"
    /\ UNCHANGED <<probe, app_vars, ev, frame, io_vars>>

\* color_eyre::install()? fails: main returns the error at once (main.rs:55)
InstallFail ==
    /\ pc = "install"
    /\ pc' = "exited"
    /\ result' = "Err_install"
    /\ stderr' = Append(stderr, "Err_install")
    /\ exit_code' = 1
    /\ UNCHANGED <<probe, app_vars, ev, frame, raw_mode, restore_calls>>

\* ratatui::init() succeeds, run() starts with App::new() (main.rs:61-63, 76)
TerminalInit ==
    /\ pc = "init"
    /\ raw_mode' = TRUE
    /\ pc' = "while"
    /\ UNCHANGED <<probe, app_vars, ev, frame, restore_calls, result, stderr,
                   exit_code>>

\* Mutant of TerminalInitFail: main takes the failure as an Err and goes on
\* to its restore() call (try_init() kept in a Result, then restore()).
TerminalInitFail_ThenRestore ==
    /\ pc = "init"
    /\ pc' = "restore"
    /\ result' = "Err_init"
    /\ UNCHANGED <<probe, app_vars, ev, frame, raw_mode, restore_calls, stderr,
                   exit_code>>

\* ratatui::init() fails: it panics, main never reaches run() or restore()
TerminalInitFail ==
    /\ pc = "init"
    /\ pc' = "exited"
    /\ stderr' = Append(stderr, "panic_init")
    /\ exit_code' = 101
    /\ UNCHANGED <<probe, app_vars, ev, frame, raw_mode, restore_calls, result>>

\* Mutant of While: the loop draws only once, before the loop, and an
\* iteration starts with the read.
While_SkipsDraw ==
    /\ pc = "while"
    /\ IF running
       THEN pc' = (IF frame = NoFrame THEN "draw" ELSE "read")
            /\ UNCHANGED result
       ELSE pc' = "restore" /\ result' = "Ok"
    /\ UNCHANGED <<probe, app_vars, ev, frame, raw_mode, restore_calls, stderr,
                   exit_code>>

\* while app.running (main.rs:78), and Ok(()) when it is false (main.rs:88)
While ==
    /\ pc = "while"
    /\ IF running
       THEN pc' = "draw" /\ UNCHANGED result
       ELSE pc' = "restore" /\ result' = "Ok"
    /\ UNCHANGED <<probe, app_vars, ev, frame, raw_mode, restore_calls, stderr,
                   exit_code>>

\* terminal.draw(|frame| render(frame, &app))? succeeds (main.rs:80)
Draw ==
    /\ pc = "draw"
    /\ \E area \in Areas : frame' = render(App, area)
    /\ pc' = "read"
    /\ UNCHANGED <<probe, app_vars, ev, io_vars>>

\* Mutant of DrawFail: the error leaves main before restore(), as if main
\* called run(terminal)? instead of keeping the result.
DrawFail_SkipsRestore ==
    /\ pc = "draw"
    /\ result' = "Err_draw"
    /\ pc' = "return"
    /\ UNCHANGED <<probe, app_vars, ev, frame, raw_mode, restore_calls, stderr,
                   exit_code>>

\* terminal.draw(...)? fails: run() returns the error (main.rs:80)
DrawFail ==
    /\ pc = "draw"
    /\ result' = "Err_draw"
    /\ pc' = "restore"
    /\ UNCHANGED <<probe, app_vars, ev, frame, raw_mode, restore_calls, stderr,
                   exit_code>>

\* What the user may do next: any event, except that the character keys
\* touched keep the typed text a prefix of a script, and that a non-empty
\* command is one of the Submitted texts and, unless it is clear, is
\* submitted only while the log is within its bound.
Arrives(e) ==
    /\ (e.type = "Key" /\ e.code = "Char")
          => Append(input, e.c) \in Typable
    /\ (e.type = "Key" /\ e.kind = "Press" /\ e.code = "Enter" /\ input # <<>>)
          => (input \in Submitted
              /\ (Len(messages) <= MaxLog \/ input = CMD_CLEAR))

\* event::read()? returns an event (main.rs:83)
Read ==
    /\ pc = "read"
    /\ \E e \in Events :
          /\ Arrives(e)
          /\ ev' = e
    /\ pc' = "handle"
    /\ UNCHANGED <<probe, app_vars, frame, io_vars>>

\* Mutant of ReadFail: the error ends the loop as if the user had quit
\* (break on Err, then Ok(())).
ReadFail_EndsCleanly ==
    /\ pc = "read"
    /\ result' = "Ok"
    /\ pc' = "restore"
    /\ UNCHANGED <<probe, app_vars, ev, frame, raw_mode, restore_calls, stderr,
                   exit_code>>

\* event::read()? fails: run() returns the error (main.rs:83)
ReadFail ==
    /\ pc = "read"
    /\ result' = "Err_read"
    /\ pc' = "restore"
    /\ UNCHANGED <<probe, app_vars, ev, frame, raw_mode, restore_calls, stderr,
                   exit_code>>

\* Mutant of Update: the loop condition is tested after the draw, so the
\* update is followed by one more frame.
Update_ThenDraw ==
    /\ pc = "handle"
    /\ LET before == [App EXCEPT !.invoked = FALSE]
           after  == IF ev.type = "Key" THEN handle_input(before, ev)
                     ELSE before
       IN  /\ running' = after.running
           /\ input' = after.input
           /\ messages' = after.messages
           /\ invoked' = after.invoked
    /\ pc' = "draw"
    /\ UNCHANGED <<probe, ev, frame, io_vars>>

\* if let Event::Key(key) = ... { handle_input(&mut app, key); } (main.rs:83-85)
Update ==
    /\ pc = "handle"
    /\ LET before == [App EXCEPT !.invoked = FALSE]
           after  == IF ev.type = "Key" THEN handle_input(before, ev)
                     ELSE before
       IN  /\ running' = after.running
           /\ input' = after.input
           /\ messages' = after.messages
           /\ invoked' = after.invoked
    /\ pc' = "while"
    /\ UNCHANGED <<probe, ev, frame, io_vars>>

\* ratatui::restore() (main.rs:67)
Restore ==
    /\ pc = "restore"
    /\ raw_mode' = FALSE
    /\ restore_calls' = restore_calls + 1
    /\ pc' = "return"
    /\ UNCHANGED <<probe, app_vars, ev, frame, result, stderr, exit_code>>

\* Mutant of Return: main drops the result and returns Ok(()).
Return_DropsResult ==
    /\ pc = "return"
    /\ exit_code' = 0
    /\ pc' = "exited"
    /\ UNCHANGED <<probe, app_vars, ev, frame, raw_mode, restore_calls, result,
                   stderr>>

\* main returns result (main.rs:69): an Err is reported on stderr and the
\* exit status is 1, Ok(()) gives 0
Return ==
    /\ pc = "return"
    /\ IF result = "Ok"
       THEN exit_code' = 0 /\ UNCHANGED stderr
       ELSE exit_code' = 1 /\ stderr' = Append(stderr, result)
    /\ pc' = "exited"
    /\ UNCHANGED <<probe, app_vars, ev, frame, raw_mode, restore_calls, result>>

Next ==
    \/ Install
    \/ InstallFail
    \/ TerminalInit
    \/ TerminalInitFail
    \/ While
    \/ Draw
    \/ DrawFail
    \/ Read
    \/ ReadFail
    \/ Update
    \/ Restore
    \/ Return

Spec == Init /\ [][Next]_vars

\* The program is sequential: once an event has been read nothing stops it
\* from applying it, testing the loop condition, restoring the terminal and
\* returning.  (Draw and Read wait on the terminal and are not forced.)
FairSpec ==
    /\ Spec
    /\ WF_vars(Update)
    /\ WF_vars(While)
    /\ WF_vars(Restore)
    /\ WF_vars(Return)

(***************************************************************************)
(* The arithmetic of render on its own.  A session of the bounds above     *)
(* keeps a handful of log entries and input characters; render is a pure   *)
(* function of the number of log entries, the height of the frame area     *)
(* and the byte length of the input buffer, and RenderSpec evaluates it    *)
(* for numbers of entries and of bytes a long session reaches.  The log    *)
(* and the buffer have no capacity limit in the program (main.rs:165,      *)
(* 174, 202-218).                                                          *)
(***************************************************************************)
ProbeLines == {0, 2, 8, 50, 65536, 65546, 65548, 131082}

ProbeHeights == {4, 15, 24}

ProbeLens == {0, 1, 3, 65534, 65535, 65536, 70000}

ProbeInputs ==
    { [total_lines |-> n, area_height |-> h, input_len |-> l, done |-> FALSE,
       scroll |-> 0, cursor_x |-> 0, panicked |-> FALSE] :
      n \in ProbeLines, h \in ProbeHeights, l \in ProbeLens }

ProbeArea(h) == [x |-> 0, y |-> 0, width |-> 80, height |-> h]

RenderInit == ProgramInit /\ probe \in ProbeInputs

\* render (main.rs:105-149) returns: the scroll offset of main.rs:121 and
\* the cursor column of main.rs:148, wrapped when the sum overflows in a
\* build without overflow checks
RenderProbe ==
    /\ ~probe.done
    /\ LET rects == chunks(ProbeArea(probe.area_height))
       IN  probe' = [probe EXCEPT
                       !.done = TRUE,
                       !.scroll = scroll_offset(probe.total_lines,
                                                rects[1].height),
                       !.cursor_x = cursor_x(rects[2].x, probe.input_len)]
    /\ UNCHANGED <<pc, ev, frame, app_vars, io_vars>>

\* render panics at the sum of main.rs:148 in a build with overflow
\* checks, after the scroll offset of main.rs:121 was computed
RenderProbePanic ==
    /\ ~probe.done
    /\ LET rects == chunks(ProbeArea(probe.area_height))
       IN  /\ cursor_overflows(rects[2].x, probe.input_len)
           /\ probe' = [probe EXCEPT
                          !.done = TRUE,
                          !.panicked = TRUE,
                          !.scroll = scroll_offset(probe.total_lines,
                                                   rects[1].height)]
    /\ UNCHANGED <<pc, ev, frame, app_vars, io_vars>>

RenderNext == RenderProbe \/ RenderProbePanic

RenderSpec == RenderInit /\ [][RenderNext]_vars

(***************************************************************************)
(* Events and conditions the properties speak of.                          *)
(***************************************************************************)
EscPress == Key("Esc", "", "Press")

EnterPress == Key("Enter", "", "Press")

BackspacePress == Key("Backspace", "", "Press")

CharPress(c) == Key("Char", c, "Press")

\* run() has returned: the loop has stopped
LoopStopped == result \in {"Ok", "Err_draw", "Err_read"}

\* run() returned the error of a draw or of a read
LoopFailed == result \in {"Err_draw", "Err_read"}

\* s is a prefix of t
IsPrefix(s, t) == Len(s) <= Len(t) /\ SubSeq(t, 1, Len(s)) = s

(***************************************************************************)
(* C1: in a session that acquired the terminal, restore() is called        *)
(* exactly once, after the loop has stopped, on every exit path (Esc,      *)
(* quit, a failed draw, a failed read): it is never called twice, never    *)
(* before run() has returned, and the process never ends with the terminal *)
(* still in raw mode.                                                      *)
(***************************************************************************)
C1_RestoreExactlyOnce ==
    /\ restore_calls <= 1
    /\ raw_mode => restore_calls = 0
    /\ restore_calls = 1 => (LoopStopped /\ pc \in {"return", "exited"})
    /\ pc = "exited" => ~raw_mode
    /\ (pc = "exited" /\ LoopStopped) => restore_calls = 1
    /\ result = "Ok" => ~running

\* Witness of C1: a session that typed and submitted text, then ended by a
\* failed draw, has exited with the terminal restored once.
C1_Witness ==
    /\ pc = "exited"
    /\ result = "Err_draw"
    /\ Len(messages) > 2
    /\ restore_calls = 1
    /\ ~raw_mode

(***************************************************************************)
(* C2: a failed draw or read is fatal and not retried: from the failure on *)
(* nothing is rendered, read or updated; the error is reported only after  *)
(* the terminal has been restored; the exit status is not zero.            *)
(***************************************************************************)
C2_FailureIsFatal ==
    /\ [][LoopFailed' => UNCHANGED <<probe, app_vars, ev, frame>>]_vars
    /\ [][(~LoopFailed /\ LoopFailed') => pc' = "restore"]_vars
    /\ [](LoopFailed => pc \in {"restore", "return", "exited"})
    /\ []((LoopFailed /\ stderr # <<>>) => (restore_calls = 1 /\ ~raw_mode))
    /\ []((LoopFailed /\ pc = "exited") => (exit_code # 0 /\ stderr = <<result>>))

\* Witness of C2: a failed read, reported after the restoration, exit 1.
C2_Witness ==
    /\ pc = "exited"
    /\ result = "Err_read"
    /\ stderr = <<"Err_read">>
    /\ restore_calls = 1
    /\ exit_code = 1

(***************************************************************************)
(* C3: an Esc key press, applied in any Running state whatever the input   *)
(* buffer and the log hold, sets the running flag to false and leaves the  *)
(* buffer and the log alone; the process then ends with exactly one call   *)
(* of restore().                                                           *)
(***************************************************************************)
C3_EscTerminates ==
    /\ [][(pc = "handle" /\ ev = EscPress)
            => (~running' /\ input' = input /\ messages' = messages
                /\ restore_calls' = 0)]_vars
    /\ ((pc = "handle" /\ ev = EscPress)
            ~> (pc = "exited" /\ ~running /\ restore_calls = 1))
    /\ [](restore_calls <= 1)

\* Witness of C3: Esc was pressed with text in the buffer and a log that
\* has grown; the process has exited after one restoration.
C3_Witness ==
    /\ pc = "exited"
    /\ ev = EscPress
    /\ input # <<>>
    /\ Len(messages) > 2
    /\ ~running
    /\ restore_calls = 1

(***************************************************************************)
(* C4: while no Esc is pressed and no terminate command is submitted (a    *)
(* text whose trimmed form is quit), the running flag stays true after     *)
(* every event, whatever else is typed or submitted; so the flag is false  *)
(* only after an Esc press or after the submission of quit.                *)
(***************************************************************************)
SubmitsQuit == ev = EnterPress /\ trim(input) = CMD_QUIT

C4_StaysRunning ==
    /\ [][(pc = "handle" /\ running /\ ev # EscPress /\ ~SubmitsQuit)
            => running']_vars
    /\ [](~running =>
            \/ ev = EscPress
            \/ /\ ev = EnterPress
               /\ invoked
               /\ messages # <<>>
               /\ LET last == messages[Len(messages)]
                  IN  /\ IsPrefix(ECHO_PREFIX, last)
                      /\ trim(SubSeq(last, Len(ECHO_PREFIX) + 1, Len(last)))
                            = CMD_QUIT)

\* Witness of C4: the text quitx, which contains the word quit, has been
\* submitted and reported as unknown, and the loop is still running.
C4_Witness ==
    /\ pc = "while"
    /\ running
    /\ ev = EnterPress
    /\ invoked
    /\ messages # <<>>
    /\ messages[Len(messages)]
          = UNKNOWN_PREFIX \o <<"q", "u", "i", "t", "x">> \o UNKNOWN_SUFFIX

(***************************************************************************)
(* C5 as stated: the submission of a non-empty command leaves the input    *)
(* buffer empty and the log equal to the log before it, followed by the    *)
(* echo entry "> " + text, followed by what the handler appended - for     *)
(* every command of the table, clear included.                             *)
(***************************************************************************)
SubmitStep == pc = "handle" /\ ev = EnterPress /\ input # <<>>

EchoThenHandler ==
    /\ IsPrefix(Append(messages, ECHO_PREFIX \o input), messages')
    /\ \A i \in (Len(messages) + 2)..Len(messages') :
          messages'[i] # ECHO_PREFIX \o input

C5_Original ==
    [][SubmitStep => (input' = <<>> /\ EchoThenHandler)]_vars

(***************************************************************************)
(* C5, amended: the submission of a non-empty command invokes the handler  *)
(* and leaves the input buffer empty; unless the trimmed command is clear  *)
(* the log afterwards is the log before it, followed by exactly one echo   *)
(* entry "> " + text, followed by what the handler appended; after clear   *)
(* the log is empty, the echo entry being cleared with the rest.           *)
(***************************************************************************)
C5_SubmitEchoes ==
    [][SubmitStep =>
          /\ input' = <<>>
          /\ invoked'
          /\ IF trim(input) = CMD_CLEAR
             THEN messages' = <<>>
             ELSE EchoThenHandler]_vars

\* Witness of C5: help has been submitted on the initial log.
C5_Witness ==
    /\ pc = "while"
    /\ ev = EnterPress
    /\ invoked
    /\ input = <<>>
    /\ messages = <<MSG_WELCOME, MSG_ESC, ECHO_PREFIX \o CMD_HELP,
                    HELP_1, HELP_2, HELP_3, HELP_4, HELP_5>>

(***************************************************************************)
(* C6: Enter on an empty input buffer changes neither the log nor the      *)
(* running flag nor the buffer, and the handler is not invoked.            *)
(***************************************************************************)
C6_EmptyEnterIsNoOp ==
    [][(pc = "handle" /\ ev = EnterPress /\ input = <<>>)
          => /\ messages' = messages
             /\ running' = running
             /\ input' = <<>>
             /\ ~invoked']_vars

\* Witness of C6: Enter was applied to an empty buffer (the handler did not
\* run) after the log had grown.
C6_Witness ==
    /\ pc = "while"
    /\ ev = EnterPress
    /\ ~invoked
    /\ input = <<>>
    /\ Len(messages) > 2
    /\ frame = render(App, frame.area)

(***************************************************************************)
(* C7: typing the characters of any text into any input buffer and then    *)
(* pressing backspace once per character gives the buffer back; backspace  *)
(* on an empty buffer does nothing; character keys and backspace leave the *)
(* log and the running flag alone.  Checked on every state in which the    *)
(* loop awaits input, for every text of at most MaxTyped characters.       *)
(***************************************************************************)
TypedChars == {"a", " ", "U+2014"}

TypedTexts == UNION { [1..n -> TypedChars] : n \in 0..MaxTyped }

\* the state after the key events of keys, applied in order
RECURSIVE apply_keys(_, _)
apply_keys(app, keys) ==
    IF keys = <<>> THEN app
    ELSE apply_keys(handle_input(app, Head(keys)), Tail(keys))

C7_TypeThenBackspace ==
    pc = "read" =>
        /\ \A t \in TypedTexts :
              LET typed  == apply_keys(App, [i \in 1..Len(t) |-> CharPress(t[i])])
                  erased == apply_keys(typed, [i \in 1..Len(t) |-> BackspacePress])
              IN  /\ typed.input = input \o t
                  /\ typed.messages = messages /\ typed.running = running
                  /\ erased = App
        /\ LET empty == [App EXCEPT !.input = <<>>]
           IN  handle_input(empty, BackspacePress) = empty
        /\ LET erased == handle_input(App, BackspacePress)
           IN  erased.messages = messages /\ erased.running = running

\* Witness of C7: x was typed into the empty buffer and a backspace has
\* given the empty buffer back; the log is the one on the screen.
C7_Witness ==
    /\ pc = "while"
    /\ ev = BackspacePress
    /\ frame.input_bar = <<"x">>
    /\ input = <<>>
    /\ messages = frame.output
    /\ running

(***************************************************************************)
(* C8: in every step the log is only appended to (the log before is a      *)
(* prefix of the log after) or, when the step submits the clear command,   *)
(* emptied; entries are never reordered, rewritten or partially removed.   *)
(***************************************************************************)
C8_LogAppendOrClear ==
    [][\/ IsPrefix(messages, messages')
       \/ /\ pc = "handle" /\ ev = EnterPress /\ trim(input) = CMD_CLEAR
          /\ messages' = <<>>]_vars

\* Witness of C8: the clear command has emptied a log that had grown.
C8_Witness ==
    /\ pc = "while"
    /\ ev = EnterPress
    /\ invoked
    /\ Len(frame.output) > 2
    /\ messages = <<>>

(***************************************************************************)
(* C9: the loop goes render, read, update, render, ...: a frame is drawn   *)
(* only at the draw step, an event is read only at the read step that      *)
(* follows a draw, the state changes only in the update that follows the   *)
(* read, and whenever the loop awaits input the frame on the screen shows  *)
(* the current state.                                                      *)
(***************************************************************************)
C9_RenderReadUpdateOrder ==
    /\ [](pc = "read" => frame = render(App, frame.area))
    /\ [][/\ pc = "while" => pc' \in {"draw", "restore"}
          /\ pc = "draw" => pc' \in {"read", "restore"}
          /\ pc = "read" => pc' \in {"handle", "restore"}
          /\ pc = "handle" => pc' = "while"
          /\ frame' # frame => (pc = "draw" /\ pc' = "read")
          /\ ev' # ev => (pc = "read" /\ pc' = "handle")
          /\ <<running, input, messages>>' # <<running, input, messages>>
                => (pc = "handle" /\ pc' = "while")
          /\ pc' = "read" => UNCHANGED <<probe, app_vars, ev>>
          /\ pc' = "handle" => UNCHANGED <<probe, app_vars, frame>>]_vars

\* Witness of C9: the state made by a submitted command is on the screen
\* and the loop awaits the next event.
C9_Witness ==
    /\ pc = "read"
    /\ ev = EnterPress
    /\ invoked
    /\ Len(messages) > 2
    /\ frame = render(App, frame.area)

(***************************************************************************)
(* C10: the handler matches the trimmed text exactly and with regard to    *)
(* case against help, hello, clear and quit; any other submitted text      *)
(* adds, after its echo entry, exactly one entry reporting the trimmed     *)
(* text as unknown, and the loop stays running.  Checked on every state in *)
(* which the loop awaits input, for each of the Probes (a text and its     *)
(* trimmed form, written out).                                             *)
(***************************************************************************)
Probes ==
    { [text |-> <<"x", "y", "z">>, trimmed |-> <<"x", "y", "z">>],
      [text |-> <<"H", "E", "L", "P">>, trimmed |-> <<"H", "E", "L", "P">>],
      [text |-> <<"h", "e", "l">>, trimmed |-> <<"h", "e", "l">>],
      [text |-> <<"h", "e", "l", "p", " ", "m", "e">>,
       trimmed |-> <<"h", "e", "l", "p", " ", "m", "e">>],
      [text |-> <<"Q", "u", "i", "t">>, trimmed |-> <<"Q", "u", "i", "t">>],
      [text |-> <<"q", "u", "i", "t", "x">>,
       trimmed |-> <<"q", "u", "i", "t", "x">>],
      [text |-> <<"x", "q", "u", "i", "t">>,
       trimmed |-> <<"x", "q", "u", "i", "t">>],
      [text |-> <<" ", "x", "y", "z", " ">>, trimmed |-> <<"x", "y", "z">>],
      [text |-> <<"h", "e", "l", "l", "o", "!">>,
       trimmed |-> <<"h", "e", "l", "l", "o", "!">>],
      [text |-> <<"c", "l", "e", "a", "r", "s">>,
       trimmed |-> <<"c", "l", "e", "a", "r", "s">>],
      [text |-> <<"h", "e", "l", "p">>, trimmed |-> <<"h", "e", "l", "p">>],
      [text |-> <<"h", "e", "l", "l", "o">>,
       trimmed |-> <<"h", "e", "l", "l", "o">>],
      [text |-> <<"c", "l", "e", "a", "r">>,
       trimmed |-> <<"c", "l", "e", "a", "r">>],
      [text |-> <<"q", "u", "i", "t">>, trimmed |-> <<"q", "u", "i", "t">>],
      [text |-> <<" ", "h", "e", "l", "p">>,
       trimmed |-> <<"h", "e", "l", "p">>] }

Table ==
    { <<"h", "e", "l", "p">>, <<"h", "e", "l", "l", "o">>,
      <<"c", "l", "e", "a", "r">>, <<"q", "u", "i", "t">> }

C10_UnknownCommand ==
    pc = "read" =>
        \A p \in Probes :
            LET after == handle_input([App EXCEPT !.input = p.text], EnterPress)
                echo  == <<">", " ">> \o p.text
            IN  IF p.trimmed \notin Table
                THEN /\ after.messages =
                          messages \o <<echo,
                              UNKNOWN_PREFIX \o p.trimmed \o UNKNOWN_SUFFIX>>
                     /\ after.running
                     /\ after.input = <<>>
                ELSE CASE p.trimmed = <<"h", "e", "l", "p">> ->
                            after.messages = messages \o
                                <<echo, HELP_1, HELP_2, HELP_3, HELP_4, HELP_5>>
                       [] p.trimmed = <<"h", "e", "l", "l", "o">> ->
                            after.messages = messages \o <<echo, MSG_HELLO>>
                       [] p.trimmed = <<"c", "l", "e", "a", "r">> ->
                            after.messages = <<>>
                       [] p.trimmed = <<"q", "u", "i", "t">> ->
                            /\ after.messages = messages \o <<echo>>
                            /\ ~after.running

\* Witness of C10: xyz was submitted on the initial log; the log has gained
\* its echo and one unknown-command entry and the loop is running.
C10_Witness ==
    /\ pc = "while"
    /\ ev = EnterPress
    /\ running
    /\ input = <<>>
    /\ messages = <<MSG_WELCOME, MSG_ESC,
                    <<">", " ", "x", "y", "z">>,
                    UNKNOWN_PREFIX \o <<"x", "y", "z">> \o UNKNOWN_SUFFIX>>

C12_ExitStatus ==
    pc = "exited" =>
        /\ exit_code # -1
        /\ ~running => (exit_code = 0 /\ result = "Ok")
        /\ running => (exit_code # 0 /\ result # "Ok")
        /\ exit_code = 0 =>
              \/ ev = EscPress
              \/ ev = EnterPress /\ invoked
        /\ result \in {"Err_install", "Err_draw", "Err_read"}
              => (exit_code # 0 /\ stderr = <<result>>)

\* Witness of C12: the quit command ended the session, exit status 0.
C12_Witness ==
    /\ pc = "exited"
    /\ ev = EnterPress
    /\ invoked
    /\ ~running
    /\ exit_code = 0
    /\ stderr = <<>>

(***************************************************************************)
(* C13: a key event that is not a press (a release or a repeat, of any     *)
(* key, Esc and Enter included) and an event that is no key event change   *)
(* neither the running flag nor the input buffer nor the log; the handler  *)
(* is not invoked and the loop goes on to draw and read again.             *)
(***************************************************************************)
NotActionable(e) == e.type # "Key" \/ e.kind # "Press"

C13_OnlyPressActs ==
    /\ [][(pc = "handle" /\ NotActionable(ev))
            => /\ UNCHANGED <<running, input, messages>>
               /\ ~invoked'
               /\ pc' = "while"]_vars
    /\ []((pc \in {"while", "draw", "read"} /\ ev # NoEvent
            /\ NotActionable(ev)) => running)
    /\ []((pc = "read" /\ NotActionable(ev)) => frame = render(App, frame.area))

\* Witness of C13: the release of Esc was applied with text in the buffer;
\* the loop has drawn again and awaits the next event.
C13_Witness ==
    /\ pc = "read"
    /\ ev = Key("Esc", "", "Release")
    /\ running
    /\ input # <<>>
    /\ Len(messages) > 2
    /\ frame = render(App, frame.area)

(***************************************************************************)
(* C15: the handler only appends to the log, empties the log or sets the   *)
(* running flag to false: whatever the command text and the state, it      *)
(* leaves the input buffer alone and never sets the flag to true, and the  *)
(* quit command changes the flag only.  Checked on every state in which    *)
(* the loop awaits input, with the flag true and false, for the texts of   *)
(* the Probes and every typable text.                                      *)
(***************************************************************************)
CmdTexts == { p.text : p \in Probes } \cup Typable

QuitTexts ==
    { <<"q", "u", "i", "t">>, <<" ", "q", "u", "i", "t">>,
      <<" ", "q", "u", "i", "t", " ">> }

C15_HandlerEffects ==
    pc = "read" =>
        \A t \in CmdTexts, r \in BOOLEAN :
            LET a == [App EXCEPT !.running = r]
                b == execute_command(a, t)
            IN  /\ b.input = a.input
                /\ b.running => a.running
                /\ b.messages = <<>> \/ IsPrefix(a.messages, b.messages)
                /\ t \in QuitTexts
                      => (b.messages = a.messages /\ ~b.running)

\* Witness of C15: quit was submitted; the log has gained the echo entry of
\* handle_input and nothing else, and the flag is false.
C15_Witness ==
    /\ pc = "while"
    /\ ev = EnterPress
    /\ invoked
    /\ ~running
    /\ frame.input_bar = <<"q", "u", "i", "t">>
    /\ messages = Append(frame.output, <<">", " ", "q", "u", "i", "t">>)

(***************************************************************************)
(* C17: once the running flag is false it stays false, and from then on no *)
(* frame is drawn, no event is read and neither the input buffer nor the   *)
(* log changes: the loop is left without drawing the state the             *)
(* terminating event made.                                                 *)
(***************************************************************************)
C17_TerminatedIsAbsorbing ==
    /\ [][~running
            => (~running' /\ UNCHANGED <<input, messages, frame, ev>>)]_vars
    /\ [](~running => pc \in {"while", "restore", "return", "exited"})

\* Witness of C17: the process has ended after quit; the screen still shows
\* the typed command and the log without its echo entry.
C17_Witness ==
    /\ pc = "exited"
    /\ ~running
    /\ ev = EnterPress
    /\ frame.input_bar = <<"q", "u", "i", "t">>
    /\ input = <<>>
    /\ Len(messages) = Len(frame.output) + 1

(***************************************************************************)
(* C18: after the submission of a text whose trimmed form is clear the     *)
(* log is empty: the echo entry of the command is removed with the rest.   *)
(***************************************************************************)
C18_ClearEmptiesLog ==
    [][(pc = "handle" /\ ev = EnterPress /\ input # <<>>
        /\ trim(input) = CMD_CLEAR)
          => /\ messages' = <<>>
             /\ input' = <<>>
             /\ invoked'
             /\ running' = running]_vars

\* Witness of C18: clear was typed and submitted; the log, which held
\* entries, is empty.
C18_Witness ==
    /\ pc = "while"
    /\ ev = EnterPress
    /\ invoked
    /\ running
    /\ frame.input_bar = <<"c", "l", "e", "a", "r">>
    /\ frame.output # <<>>
    /\ messages = <<>>
    /\ input = <<>>

(***************************************************************************)
(* C19: Enter tests the untrimmed buffer for emptiness and the handler     *)
(* matches the trimmed text: a buffer of spaces only is submitted (echo    *)
(* entry, handler invoked, one unknown-command entry for the empty text),  *)
(* and " quit " runs quit while its echo entry keeps the spaces.           *)
(***************************************************************************)
Blank(s) == s # <<>> /\ \A i \in 1..Len(s) : s[i] = " "

C19_TrimAfterEmptinessTest ==
    /\ [][(pc = "handle" /\ ev = EnterPress /\ Blank(input))
            => /\ messages' = messages \o
                     << <<">", " ">> \o input,
                        UNKNOWN_PREFIX \o UNKNOWN_SUFFIX >>
               /\ invoked'
               /\ running' = running
               /\ input' = <<>>]_vars
    /\ [][(pc = "handle" /\ ev = EnterPress
           /\ input = <<" ", "q", "u", "i", "t", " ">>)
            => /\ messages' =
                     Append(messages, <<">", " ", " ", "q", "u", "i", "t", " ">>)
               /\ invoked'
               /\ ~running'
               /\ input' = <<>>]_vars
    /\ [](pc = "read" =>
            LET after == handle_input([App EXCEPT !.input = <<" ", " ">>],
                                      EnterPress)
            IN  /\ after.invoked
                /\ after.messages = messages \o
                      << <<">", " ", " ", " ">>,
                         UNKNOWN_PREFIX \o UNKNOWN_SUFFIX >>)

\* Witness of C19: " quit " was submitted: the flag is false and the last
\* log entry is the echo with both spaces.
C19_Witness ==
    /\ pc = "while"
    /\ ev = EnterPress
    /\ invoked
    /\ ~running
    /\ messages # <<>>
    /\ messages[Len(messages)] = <<">", " ", " ", "q", "u", "i", "t", " ">>

(***************************************************************************)
(* Types.                                                                  *)
(***************************************************************************)
(***************************************************************************)
(* C14: every frame render returns scrolls the output region by            *)
(* max(0, total_lines - visible_height), where visible_height is the       *)
(* height of the output region minus 2 and total_lines the number of log   *)
(* entries (50 entries and 10 visible rows give 40), also for a log of     *)
(* more than 65535 entries.  The code keeps the difference modulo 65536    *)
(* (main.rs:121): 65548 entries in an area of 15 rows give the offset 2,   *)
(* not 65538, and the view shows the oldest entries.  An output region of  *)
(* fewer than 2 rows is read as having no visible row.                     *)
(***************************************************************************)
C14_ScrollOffsetIsDifference ==
    (probe.done /\ ~probe.panicked)
        => LET output_rows == probe.area_height - INPUT_BAR_ROWS
               visible     == IF output_rows > BORDER_ROWS
                              THEN output_rows - BORDER_ROWS
                              ELSE 0
           IN  probe.scroll = IF probe.total_lines > visible
                              THEN probe.total_lines - visible
                              ELSE 0

(***************************************************************************)
(* C16: every frame places the cursor in the column of the left edge of    *)
(* the input region plus the number of characters of the input buffer      *)
(* plus 1, in the row of the top of the input region plus 1, also for a    *)
(* buffer with characters of more than one byte.  The code adds the        *)
(* number of bytes (main.rs:148): after the one character U+00E9 the       *)
(* cursor is in column 3, not 2.                                           *)
(***************************************************************************)
C16_CursorAfterCharacters ==
    frame # NoFrame
        => LET bar == chunks(frame.area)[2]
           IN  /\ frame.cursor.x = bar.x + Len(frame.input_bar) + 1
               /\ frame.cursor.y = bar.y + 1

TypeOK ==
    /\ pc \in {"install", "init", "while", "draw", "read", "handle",
               "restore", "return", "exited"}
    /\ running \in BOOLEAN
    /\ input \in Typable
    /\ invoked \in BOOLEAN
    /\ ev \in Events \cup {NoEvent}
    /\ raw_mode \in BOOLEAN
    /\ restore_calls \in Nat
    /\ result \in {"None", "Ok", "Err_install", "Err_draw", "Err_read"}
    /\ exit_code \in {-1, 0, 1, 101}

====
